---- MODULE Spec2Model ----
(***************************************************************************)
(* WrestlePick project-file maintenance scripts.                           *)
(*                                                                         *)
(* Every script reads WrestlePick.xcodeproj/project.pbxproj into one text  *)
(* buffer, patches it with regular expressions and writes it back.  The    *)
(* model keeps the document as the lines the regular expressions can tell  *)
(* apart, grouped by the place of the text they stand in:                  *)
(*                                                                         *)
(*   ref   lines between Begin/End PBXFileReference section                *)
(*   bld   lines between Begin/End PBXBuildFile section                    *)
(*   grp   the children list of the main group  /* WrestlePick */          *)
(*   src   the files list of the PBXSourcesBuildPhase  /* Sources */       *)
(*   fw    the files list of the first build phase of the document         *)
(*         (PBXFrameworksBuildPhase: sections are sorted by isa)           *)
(*   tail  text after the last character of the input document             *)
(*                                                                         *)
(* A line is one of the four texts the scripts write and match:            *)
(*   "ref"    ID /* name */ = {isa = PBXFileReference; ... path = ..; };   *)
(*   "bld"    ID /* name in Sources */ = {isa = PBXBuildFile;              *)
(*                                        fileRef = REF /* name */; };     *)
(*   "child"  ID /* name */,                                               *)
(*   "file"   ID /* name in Sources */,                                    *)
(***************************************************************************)
EXTENDS Naturals, Sequences, FiniteSets

VARIABLES
    doc,      \* the project.pbxproj on disk
    disk,     \* the .swift files os.walk("WrestlePick") yields, in order
    drawn,    \* how many values uuid.uuid4() has produced so far
    clashes,  \* how many of them repeated an earlier one
    hist,     \* names of the scripts run so far, oldest first
    prev,     \* the document as the last run read it
    req,      \* the file names the last run set out to add or remove
    alloc,    \* the identifiers the last run generated, in order
    left,     \* how many runs the session may still make
    steps,    \* what the last run did to the file, in order
    outcome,  \* how the last run ended
    removed   \* the identifiers that runs have deleted from the document

vars ==
    <<doc, disk, drawn, clashes, hist, prev, req, alloc, left, steps, outcome,
      removed>>

----------------------------------------------------------------------------
(* Bounds of the model *)

MaxOps == 2        \* script runs in one behaviour

MaxDisk == 2       \* .swift files found on disk

MaxClashes == 1    \* uuid4() values of one behaviour that repeat an earlier one

MaxSession == 3    \* script runs in a session on the one-file project

----------------------------------------------------------------------------
(* Identifiers.  An identifier is <<text, n>>: a hard-coded token of the   *)
(* scripts is <<token, 0>>; the n-th distinct value of uuid4() is          *)
(* <<"uuid4", n>>; fix_build_sources' f"88F0{i:04d}2E6D19A2009FEB41" is    *)
(* <<"88F0%04d2E6D19A2009FEB41", i>>.                                      *)

Const(s) == <<s, 0>>

Uuid(n) == <<"uuid4", n>>

NoId == <<"", 0>>

IsUuid(id) == id[1] = "uuid4"

GROUP_ID == Const("1A2B3C4D5E6F7890ABCDEF01")

SOURCES_ID == Const("1A2B3C4D5E6F7890ABCDEF04")

OTHER_GROUP_ID == Const("884CA7032E6CF28200051F1A")

APP_ANCHOR_ID == Const("1A2B3C4D5E6F7890ABCDEF00")

XCODE_APP_REF == Const("884CA7112E6CF28200051F1A")

XCODE_APP_BLD == Const("884CA7172E6CF28200051F1A")

OTHER_SOURCES_ID == Const("884CA7062E6CF28200051F1A")

CONTENTVIEW_REF == Const("884CA70D2E6CF28200051F1A")

CONTENTVIEW_BLD == Const("884CA7132E6CF28200051F1A")

PROFILEVIEW_REF == Const("884CA70E2E6CF28200051F1A")

PROFILEVIEW_BLD == Const("884CA7142E6CF28200051F1A")

SHAREDUI_REF == Const("884CA70F2E6CF28200051F1A")

SHAREDUI_BLD == Const("884CA7152E6CF28200051F1A")

PAYWALL_REF == Const("884CA7102E6CF28200051F1A")

PAYWALL_BLD == Const("884CA7162E6CF28200051F1A")

AWARDSVIEW_REF == Const("884CA7182E6CF28200051F1A")

AWARDSVIEW_BLD == Const("884CA7192E6CF28200051F1A")

REALDATAAWARDS_REF == Const("884CA71A2E6CF28200051F1A")

REALDATAAWARDS_BLD == Const("884CA71B2E6CF28200051F1A")

APP_REF == Const("1A2B3C4D5E6F7890")

APP_REF2 == Const("1A2B3C4D5E6F7891")

APP_BLD == Const("1A2B3C4D5E6F7892")

FileRefId(i) == <<"88F0%04d2E6D19A2009FEB41", i>>

BuildFileId(i) == <<"88F0%04d2E6D19A2009FEB42", i>>

RECURSIVE Digits(_)
Digits(i) == IF i < 10 THEN 1 ELSE 1 + Digits(i \div 10)

\* The number of characters of an identifier: uuid4's 32 hex digits cut to
\* [:24], a literal as long as it is written, and {i:04d} at least four
\* digits wide in place of the four characters %04d.
IdLength(id) ==
    IF IsUuid(id) THEN 24
    ELSE IF id \in {FileRefId(id[2]), BuildFileId(id[2])}
    THEN Len(id[1]) - 4 + (IF Digits(id[2]) > 4 THEN Digits(id[2]) ELSE 4)
    ELSE Len(id[1])

\* [A-F0-9]{24} directly before " /* ": the identifier has 24 hex digits.
\* Every identifier of the model has, but for add_app_file's 16-digit ones.
IsHex24(id) == id \notin {APP_REF, APP_REF2, APP_BLD}

----------------------------------------------------------------------------
(* File names *)

CV == "ContentView.swift"

PV == "ProfileView.swift"

SUI == "SharedUIComponents.swift"

PW == "PaywallView.swift"

BS == "BookingService.swift"

US == "User.swift"

NV == "NewsView.swift"

RNV == "RealNewsView.swift"

APP == "WrestlePickApp.swift"

MI == "MerchItem.swift"

AV == "AwardsView.swift"

RDAV == "RealDataAwardsView.swift"

\* The names of the scripts' lists that the model follows: the lists are
\* cut down to them.
Universe == {CV, PV, SUI, PW, BS, US}

Restrict(list) == SelectSeq(list, LAMBDA n : n \in Universe)

\* Python's  small in big  on two names of the Universe.
Contains(big, small) ==
    \/ big = small
    \/ big = RNV /\ small = NV
    \/ big = RDAV /\ small = AV

----------------------------------------------------------------------------
(* Lines and documents *)

\* The text after  path =  of a PBXFileReference line: the file name as it
\* is, the file name in double quotes, or WrestlePick/ and the file name.
PlainPath == "name"

QuotedPath == "\"name\""

PrefixedPath == "WrestlePick/name"

NoPath == ""

RefLine(id, name) ==
    [kind |-> "ref", id |-> id, name |-> name, ref |-> NoId, path |-> PlainPath]

QuotedRefLine(id, name) == [RefLine(id, name) EXCEPT !.path = QuotedPath]

BldLine(id, name, ref) ==
    [kind |-> "bld", id |-> id, name |-> name, ref |-> ref, path |-> NoPath]

ChildLine(id, name) ==
    [kind |-> "child", id |-> id, name |-> name, ref |-> NoId, path |-> NoPath]

FileLine(id, name) ==
    [kind |-> "file", id |-> id, name |-> name, ref |-> NoId, path |-> NoPath]

Range(s) == {s[i] : i \in 1..Len(s)}

Last(s) == s[Len(s)]

AllLines(d) ==
    Range(d.ref) \cup Range(d.bld) \cup Range(d.grp) \cup Range(d.src)
        \cup Range(d.fw) \cup Range(d.tail)

\* Every identifier that stands at the start of a line or list entry.
IdsIn(d) == {l.id : l \in AllLines(d)} \cup {d.grpId, d.srcId}

\* Python's  filename in content : the name occurs somewhere in the text.
InContent(name, d) ==
    \E l \in AllLines(d) \cup Range(d.grpRec.extra) \cup Range(d.srcRec.extra) :
        Contains(l.name, name)

\* A removal that writes the lines it keeps back in the opposite order.
RemoveLinesReversed(d, matched) ==
    LET Keep(l) == l \notin matched
        Reverse(s) == [i \in 1..Len(s) |-> s[Len(s) + 1 - i]]
    IN  [d EXCEPT !.ref = SelectSeq(@, Keep), !.bld = SelectSeq(@, Keep),
                  !.grp = Reverse(SelectSeq(@, Keep)),
                  !.src = Reverse(SelectSeq(@, Keep)),
                  !.fw = SelectSeq(@, Keep), !.tail = SelectSeq(@, Keep)]

\* re.sub(pattern, '', content): every line the pattern matches goes,
\* wherever in the text it stands.
RemoveLines(d, matched) ==
    LET Keep(l) == l \notin matched
    IN  [d EXCEPT !.ref = SelectSeq(@, Keep), !.bld = SelectSeq(@, Keep),
                  !.grp = SelectSeq(@, Keep), !.src = SelectSeq(@, Keep),
                  !.fw = SelectSeq(@, Keep), !.tail = SelectSeq(@, Keep)]

----------------------------------------------------------------------------
(* uuid.uuid4(): the n draws of one run.  The values are random.  The    *)
(* model follows the outcome in which all are new to the session and the   *)
(* outcomes in which one draw repeats an earlier draw of the run or a      *)
(* uuid4 value that the document already holds.                            *)

UuidsIn(d) == {l.id : l \in {x \in AllLines(d) : IsUuid(x.id)}}
                \cup {l.ref : l \in {x \in AllLines(d) : IsUuid(x.ref)}}

FreshDraws(n) == [i \in 1..n |-> Uuid(drawn + i)]

generate_uuid(n) ==
    {FreshDraws(n)} \cup
    IF clashes < MaxClashes
    THEN UNION {{[FreshDraws(n) EXCEPT ![k] = v] :
                    v \in UuidsIn(doc) \cup {Uuid(drawn + j) : j \in 1..(k - 1)}} :
                k \in 1..n}
    ELSE {}

----------------------------------------------------------------------------
(* The documents and disks a behaviour starts from *)

\* Identifiers of the files an input document may hold.
InitRef(name) ==
    CASE name = CV -> CONTENTVIEW_REF
      [] name = PV -> PROFILEVIEW_REF
      [] name = SUI -> SHAREDUI_REF
      [] OTHER -> PAYWALL_REF

InitBld(name) ==
    CASE name = CV -> CONTENTVIEW_BLD
      [] name = PV -> PROFILEVIEW_BLD
      [] name = SUI -> SHAREDUI_BLD
      [] OTHER -> PAYWALL_BLD

\* The fields of the main group's record and of the Sources phase's record
\* other than the list;  extra  is text that stands in the record outside
\* its list and its fields.
GroupRecord ==
    [isa |-> "PBXGroup", fields |-> "path = WrestlePick; sourceTree = \"<group>\";",
     extra |-> <<>>]

SourcesRecord ==
    [isa |-> "PBXSourcesBuildPhase",
     fields |-> "buildActionMask = 2147483647; runOnlyForDeploymentPostprocessing = 0;",
     extra |-> <<>>]

NoRecord == [isa |-> "", fields |-> "", extra |-> <<>>]

\* What the document says about Swift packages: nothing ("none"), a target's
\* packageProductDependencies list ("declared"), or the text
\* firebase-ios-sdk ("firebase").
PackageTexts == {"none", "declared"}

\* A document as Xcode writes it: every file has its PBXFileReference, its
\* PBXBuildFile, its entry in the main group and its entry in Sources.
XcodeDocument(names, gid, sid) ==
    [grpId |-> gid, srcId |-> sid,
     grpRec |-> GroupRecord, srcRec |-> SourcesRecord, packages |-> "none",
     ref |-> [i \in 1..Len(names) |-> RefLine(InitRef(names[i]), names[i])],
     bld |-> [i \in 1..Len(names) |->
                 BldLine(InitBld(names[i]), names[i], InitRef(names[i]))],
     grp |-> [i \in 1..Len(names) |-> ChildLine(InitRef(names[i]), names[i])],
     src |-> [i \in 1..Len(names) |-> FileLine(InitBld(names[i]), names[i])],
     fw |-> <<>>, tail |-> <<>>]

InitFileLists == {<<CV, PV, SUI, PW>>, <<CV, PV, PW>>, <<CV>>}

\* The document fix_xcode_integration.py is written for: WrestlePickApp.swift
\* is in it, and its PBXFileReference or its PBXBuildFile has the
\* identifier the patterns name.
AppDocument(ref_id, bld_id) ==
    LET d == XcodeDocument(<<CV>>, GROUP_ID, SOURCES_ID)
    IN  [d EXCEPT !.ref = Append(@, RefLine(ref_id, APP)),
                  !.bld = Append(@, BldLine(bld_id, APP, ref_id)),
                  !.grp = Append(@, ChildLine(ref_id, APP)),
                  !.src = Append(@, FileLine(bld_id, APP))]

\* A document that holds AwardsView.swift, which clean_project.py removes,
\* and RealDataAwardsView.swift, whose name ends with that name.
AwardsDocument ==
    LET d == XcodeDocument(<<CV>>, GROUP_ID, SOURCES_ID)
    IN  [d EXCEPT
            !.ref = @ \o <<RefLine(REALDATAAWARDS_REF, RDAV),
                           RefLine(AWARDSVIEW_REF, AV)>>,
            !.bld = @ \o <<BldLine(REALDATAAWARDS_BLD, RDAV, REALDATAAWARDS_REF),
                           BldLine(AWARDSVIEW_BLD, AV, AWARDSVIEW_REF)>>,
            !.grp = @ \o <<ChildLine(REALDATAAWARDS_REF, RDAV),
                           ChildLine(AWARDSVIEW_REF, AV)>>,
            !.src = @ \o <<FileLine(REALDATAAWARDS_BLD, RDAV),
                           FileLine(AWARDSVIEW_BLD, AV)>>]

InitDocuments ==
    {[XcodeDocument(names, gid, sid) EXCEPT !.packages = p] :
        names \in InitFileLists,
        gid \in {GROUP_ID, OTHER_GROUP_ID},
        sid \in {SOURCES_ID, OTHER_SOURCES_ID},
        p \in PackageTexts}
    \cup {AppDocument(APP_ANCHOR_ID, XCODE_APP_BLD),
          AppDocument(XCODE_APP_REF, APP_ANCHOR_ID), AwardsDocument}

\* A file on disk: its name and the directory under WrestlePick/ it is in.
DiskFile(name, dir) == [name |-> name, dir |-> dir]

DiskFiles == {DiskFile(CV, "."), DiskFile(US, "Models"), DiskFile(US, "Views")}

\* os.walk is top-down: the files of WrestlePick/ itself come first.
DiskListings ==
    {s \in UNION {[1..n -> DiskFiles] : n \in 0..MaxDisk} :
        /\ \A i, j \in 1..Len(s) : i # j => s[i] # s[j]
        /\ \A i, j \in 1..Len(s) : (i < j /\ s[j].dir = ".") => s[i].dir = "."}

\* Nothing has run yet.
Fresh ==
    /\ drawn = 0
    /\ clashes = 0
    /\ hist = <<>>
    /\ prev = doc
    /\ req = <<>>
    /\ alloc = <<>>
    /\ steps = <<>>
    /\ outcome = "ok"
    /\ removed = {}

Init ==
    /\ doc \in InitDocuments
    /\ disk \in DiskListings
    /\ left = MaxOps
    /\ Fresh

\* A longer session on one project: ContentView.swift in the document,
\* ContentView.swift and Models/User.swift on disk.
SessionDisks ==
    {<<DiskFile(CV, "."), DiskFile(US, "Models")>>,
     <<DiskFile(CV, "."), DiskFile(BS, "Services")>>}

InitSession ==
    /\ doc = XcodeDocument(<<CV>>, GROUP_ID, SOURCES_ID)
    /\ disk \in SessionDisks
    /\ left = MaxSession
    /\ Fresh

\* with open(project_file, 'w') as f: f.write(content)
\* open() empties the file and write() fills it: a write that fails leaves
\* the text written so far, none of it or the first section of it (the
\* PBXBuildFile section: Xcode sorts sections by isa).
TornWrites(d) ==
    LET nothing == [grpId |-> NoId, srcId |-> NoId, grpRec |-> NoRecord,
                    srcRec |-> NoRecord, packages |-> "none",
                    ref |-> <<>>, bld |-> <<>>, grp |-> <<>>, src |-> <<>>,
                    fw |-> <<>>, tail |-> <<>>]
    IN  {nothing, [nothing EXCEPT !.bld = d.bld]}

\* One run of a script: it read the document  doc , set out to handle the
\* names  names , generated the identifiers  ids  and took the steps
\* events , which leave  d  on disk.  The steps are "write" (the file is
\* opened for writing and written), "verify_ok" and "verify_failed" (the
\* names are looked for in the text, and all or not all are found), and
\* "raise" (an exception ends the run with a non-zero exit status).  The
\* model does not follow a session beyond a write that failed.
Ran(script, names, ids, d, events) ==
    /\ left > 0
    /\ outcome # "write_failed"
    /\ left' = left - 1
    /\ hist' = Append(hist, script)
    /\ prev' = doc
    /\ req' = names
    /\ alloc' = ids
    /\ LET uuids == SelectSeq(ids, IsUuid)
       IN  /\ drawn' = drawn + Len(uuids)
           /\ clashes' = IF uuids = FreshDraws(Len(uuids)) THEN clashes
                         ELSE clashes + 1
    /\ \/ /\ doc' = d
          /\ steps' = events
          /\ outcome' = IF "raise" \in Range(events) THEN "error" ELSE "ok"
       \/ /\ "write" \in Range(events)
          /\ doc' \in TornWrites(d)
          /\ steps' = <<"write">>
          /\ outcome' = "write_failed"
    /\ removed' = removed \cup (IdsIn(doc) \ IdsIn(doc'))
    /\ UNCHANGED disk

----------------------------------------------------------------------------
(* add_all_swift_files.py *)

add_all_swift_files_to_xcode_project ==
    LET swift_files == [i \in 1..Len(disk) |-> disk[i].name]
        files_to_add == SelectSeq(swift_files, LAMBDA f : ~InContent(f, doc))
        n == Len(files_to_add)
        group_found == doc.grpId = GROUP_ID
        sources_found == doc.srcId = SOURCES_ID
        ndraws == 2 * n + (IF group_found THEN n ELSE 0)
                        + (IF sources_found THEN n ELSE 0)
    IN  IF n = 0
        THEN Ran("add_all_swift_files", files_to_add, <<>>, doc, <<>>)
        ELSE \E ids \in generate_uuid(ndraws) :
            LET file_uuid(i) == ids[2 * i - 1]
                build_uuid(i) == ids[2 * i]
                group_ids == SubSeq(ids, 2 * n + 1, 3 * n)
                sources_ids == IF group_found THEN SubSeq(ids, 3 * n + 1, 4 * n)
                               ELSE SubSeq(ids, 2 * n + 1, 3 * n)
                file_entries == [i \in 1..n |-> RefLine(file_uuid(i), files_to_add[i])]
                build_entries == [i \in 1..n |->
                    BldLine(build_uuid(i), files_to_add[i], file_uuid(i))]
                \* one uuid4() per list entry: the comprehensions draw anew
                new_group_content == [i \in 1..n |->
                    ChildLine(group_ids[i], files_to_add[i])]
                new_sources_content == [i \in 1..n |->
                    FileLine(sources_ids[i], files_to_add[i])]
                d1 == [doc EXCEPT !.ref = @ \o file_entries, !.bld = @ \o build_entries]
                d2 == IF group_found
                      THEN [d1 EXCEPT !.grp = @ \o new_group_content]
                      ELSE d1
                d3 == IF sources_found
                      THEN [d2 EXCEPT !.src = @ \o new_sources_content]
                      ELSE d2
            IN  Ran("add_all_swift_files", files_to_add, ids, d3, <<"write">>)

----------------------------------------------------------------------------
(* clean_project.py *)

files_to_remove ==
    <<"AchievementSharingView.swift", "PaywallView.swift",
      "CommentThreadView.swift", "FeedView.swift", "DataExportView.swift",
      "NewsCardView.swift", "NewsService.swift", "NewsModels.swift",
      "LocalDatabaseService.swift", "MerchService.swift",
      "BookingService.swift", "FirestoreCollections.swift", "AwardsView.swift",
      "AuthenticationView.swift", "CommunityVotingView.swift",
      "NewsArticle.swift">>

\* A removal whose patterns do not ask for the name to begin right behind
\* the comment's opening: a line of a longer name that ends with the
\* name matches too.
RemoveByNameEnd(d, filename) ==
    LET file_ref_pattern(l) ==
            l.kind = "ref" /\ IsHex24(l.id) /\ Contains(l.name, filename)
        build_file_pattern(l) ==
            l.kind = "bld" /\ IsHex24(l.id) /\ Contains(l.name, filename)
        build_phase_pattern(l) ==
            l.kind = "file" /\ IsHex24(l.id) /\ Contains(l.name, filename)
        d1 == RemoveLines(d, {l \in AllLines(d) : file_ref_pattern(l)})
        d2 == RemoveLines(d1, {l \in AllLines(d1) : build_file_pattern(l)})
    IN  RemoveLines(d2, {l \in AllLines(d2) : build_phase_pattern(l)})

\* The three substitutions of one file name.
RemoveByName(d, filename) ==
    LET file_ref_pattern(l) ==
            l.kind = "ref" /\ IsHex24(l.id) /\ l.name = filename
        build_file_pattern(l) ==
            l.kind = "bld" /\ IsHex24(l.id) /\ l.name = filename
        build_phase_pattern(l) ==
            l.kind = "file" /\ IsHex24(l.id) /\ l.name = filename
        d1 == RemoveLines(d, {l \in AllLines(d) : file_ref_pattern(l)})
        d2 == RemoveLines(d1, {l \in AllLines(d1) : build_file_pattern(l)})
    IN  RemoveLines(d2, {l \in AllLines(d2) : build_phase_pattern(l)})

RECURSIVE RemoveAll(_, _)
RemoveAll(d, names) ==
    IF names = <<>> THEN d
    ELSE RemoveAll(RemoveByName(d, Head(names)), Tail(names))

clean_xcode_project ==
    LET names == SelectSeq(files_to_remove, LAMBDA f : f \in Universe \cup {AV})
    IN  Ran("clean_project", names, <<>>, RemoveAll(doc, names), <<"write">>)

----------------------------------------------------------------------------
(* clean_all_project.py *)

files_to_keep == <<"ContentView.swift">>

\* re.findall: the (identifier, name) of every PBXFileReference line whose
\* identifier has 24 hex digits and whose name ends in .swift.
FindAllFileRefs(d) ==
    {<<l.id, l.name>> : l \in {x \in AllLines(d) : x.kind = "ref" /\ IsHex24(x.id)}}

RemoveByIdAndName(d, file_id, filename) ==
    LET file_ref_pattern(l) ==
            l.kind = "ref" /\ l.id = file_id /\ l.name = filename
        build_file_pattern(l) ==
            l.kind = "bld" /\ IsHex24(l.id) /\ l.name = filename
        build_phase_pattern(l) ==
            l.kind = "file" /\ IsHex24(l.id) /\ l.name = filename
        d1 == RemoveLines(d, {l \in AllLines(d) : file_ref_pattern(l)})
        d2 == RemoveLines(d1, {l \in AllLines(d1) : build_file_pattern(l)})
    IN  RemoveLines(d2, {l \in AllLines(d2) : build_phase_pattern(l)})

\* A removal that takes every PBXFileReference out, kept files included.
RemoveEveryFileRef(d, file_refs) ==
    RemoveLines(d, {l \in AllLines(d) : l.kind = "ref"})

RECURSIVE RemoveRefs(_, _)
RemoveRefs(d, file_refs) ==
    IF file_refs = {} THEN d
    ELSE LET r == CHOOSE x \in file_refs : TRUE
         IN  RemoveRefs(RemoveByIdAndName(d, r[1], r[2]), file_refs \ {r})

\* The names of a set of lines, in the order of the sequence  s .
NamesOf(s, lines) ==
    LET hit == SelectSeq(s, LAMBDA l : l \in lines)
    IN  [i \in 1..Len(hit) |-> hit[i].name]

clean_all_xcode_project ==
    LET file_refs == {r \in FindAllFileRefs(doc) : r[2] \notin Range(files_to_keep)}
        named == {l \in AllLines(doc) : l.kind = "ref" /\ <<l.id, l.name>> \in file_refs}
    IN  Ran("clean_all_project", NamesOf(doc.ref \o doc.tail, named), <<>>,
            RemoveRefs(doc, file_refs), <<"write">>)

----------------------------------------------------------------------------
(* fix_build_sources.py *)

fix_build_sources ==
    LET swift_files == [i \in 1..Len(disk) |-> disk[i].name]
        n == Len(swift_files)
        \* enumerate() counts from 0
        file_ref_entries == [k \in 1..n |-> RefLine(FileRefId(k - 1), swift_files[k])]
        build_file_entries == [k \in 1..n |->
            BldLine(BuildFileId(k - 1), swift_files[k], FileRefId(k - 1))]
        ids == [k \in 1..(2 * n) |->
                   IF k % 2 = 1 THEN FileRefId((k - 1) \div 2)
                   ELSE BuildFileId((k - 2) \div 2)]
        \* the Sources pattern ends in "/* End PBXSourcesBuildPhase */", which
        \* no document holds (the marker reads "... section */"): no entry
        sources_section == FALSE
        d1 == [doc EXCEPT !.ref = @ \o file_ref_entries,
                          !.bld = @ \o build_file_entries]
        d2 == IF sources_section
              THEN [d1 EXCEPT !.src = @ \o [k \in 1..n |->
                                  FileLine(BuildFileId(k - 1), swift_files[k])]]
              ELSE d1
    IN  Ran("fix_build_sources", swift_files, ids, d2, <<"write">>)

----------------------------------------------------------------------------
(* add_new_views.py *)

new_files ==
    <<"RealDataPredictionsView.swift", "CreatePredictionView.swift",
      "RealDataAwardsView.swift", "RealDataProfileView.swift",
      "FantasyBookingView.swift", "CreateBookingView.swift",
      "PredictionService.swift", "AwardsService.swift", "UserService.swift",
      "BookingService.swift", "Award.swift", "PredictionModels.swift",
      "FantasyBookingModels.swift", "User.swift">>

\* r'/\* Sources \*/ = \{{(.*?)\}};' and r'/\* WrestlePick \*/ = \{{(.*?)\}};'
\* ask for two opening braces in a row, which no document holds.
DoubleBraceFound == FALSE

\* for file_name in ...: if file_name in content, after the write: the
\* result is printed and changes nothing.
Verify(names, d) ==
    IF \A i \in 1..Len(names) : InContent(names[i], d)
    THEN "verify_ok" ELSE "verify_failed"

add_files_to_xcode_project ==
    LET names == Restrict(new_files)
        n == Len(names)
        ndraws == 2 * n + (IF DoubleBraceFound THEN n + 2 ELSE 0)
    IN  \E ids \in generate_uuid(ndraws) :
        LET file_uuids(i) == ids[i]
            build_uuid(i) == ids[n + i]
            d1 == [doc EXCEPT
                     !.ref = @ \o [i \in 1..n |->
                                QuotedRefLine(file_uuids(i), names[i])],
                     !.bld = @ \o [i \in 1..n |->
                                BldLine(build_uuid(i), names[i], file_uuids(i))]]
            \* steps 3 and 4 put their lines before the closing brace of
            \* the record they found
            new_source == [i \in 1..n |-> FileLine(ids[2 * n + i], names[i])]
            views_group == ChildLine(ids[3 * n + 1], "Views")
            services_group == ChildLine(ids[3 * n + 2], "Services")
            d2 == IF DoubleBraceFound
                  THEN [d1 EXCEPT
                          !.srcRec.extra = @ \o new_source,
                          !.grpRec.extra = @ \o <<views_group, services_group>>]
                  ELSE d1
        IN  Ran("add_new_views", names, ids, d2, <<"write", Verify(names, d2)>>)

----------------------------------------------------------------------------
(* fix_complete_integration.py *)

all_files ==
    <<"WrestlePickApp.swift", "ContentView.swift", "RealDataModels.swift",
      "RealNewsView.swift", "RealRSSManager.swift", "SimpleNewsView.swift",
      "SimpleRSSManager.swift", "RealDataPredictionsView.swift",
      "CreatePredictionView.swift", "RealDataAwardsView.swift",
      "RealDataProfileView.swift", "FantasyBookingView.swift",
      "CreateBookingView.swift", "PredictionService.swift",
      "AwardsService.swift", "UserService.swift", "BookingService.swift",
      "Award.swift", "PredictionModels.swift", "FantasyBookingModels.swift",
      "User.swift">>

fix_complete_integration ==
    LET names == Restrict(all_files)
        n == Len(names)
        ndraws == 2 * n + (IF DoubleBraceFound THEN n ELSE 0)
    IN  \E ids \in generate_uuid(ndraws) :
        LET file_uuids(i) == ids[i]
            build_uuid(i) == ids[n + i]
            d1 == [doc EXCEPT
                     !.ref = [i \in 1..n |->
                                QuotedRefLine(file_uuids(i), names[i])],
                     !.bld = [i \in 1..n |->
                                BldLine(build_uuid(i), names[i], file_uuids(i))]]
            \* step 3 puts its lines in place of all that stands between
            \* the braces of the Sources record, step 4 puts its lines
            \* before the closing brace of the group's record
            new_sources == [i \in 1..n |-> FileLine(ids[2 * n + i], names[i])]
            group_content == [i \in 1..n |-> ChildLine(file_uuids(i), names[i])]
            d2 == IF DoubleBraceFound
                  THEN [d1 EXCEPT
                          !.srcRec = [NoRecord EXCEPT !.extra = new_sources],
                          !.src = <<>>,
                          !.grpRec.extra = @ \o group_content]
                  ELSE d1
        IN  Ran("fix_complete_integration", names, ids, d2,
                <<"write", Verify(names, d2)>>)

----------------------------------------------------------------------------
(* add_files_to_xcode.py, fix_xcode_project.py, add_newsview.py            *)
(*                                                                         *)
(* Each substitution is re.sub(P, r'\1\n' + new, content, flags=re.DOTALL) *)
(* where P is one group: any text, the anchor line, any text.  With DOTALL *)
(* "any text" crosses line ends, so the group is the whole document and    *)
(* the new text follows its last character.                                *)

AppendAfterAnchor(d, anchor, new) ==
    IF anchor \in AllLines(d) THEN [d EXCEPT !.tail = @ \o new] ELSE d

\* The four substitutions, in the order the scripts make them.
\* ids  holds file_refs[f], build_files[f] of each name in turn;  anchors
\* holds the anchor lines of the four patterns.
AddAfterAnchors(d, names, ids, anchors) ==
    LET n == Len(names)
        file_refs(i) == ids[2 * i - 1]
        build_files(i) == ids[2 * i]
        d1 == AppendAfterAnchor(d, anchors[1],
                  [i \in 1..n |-> RefLine(file_refs(i), names[i])])
        d2 == AppendAfterAnchor(d1, anchors[2],
                  [i \in 1..n |-> BldLine(build_files(i), names[i], file_refs(i))])
        d3 == AppendAfterAnchor(d2, anchors[3],
                  [i \in 1..n |-> FileLine(build_files(i), names[i])])
    IN  AppendAfterAnchor(d3, anchors[4],
                  [i \in 1..n |-> ChildLine(file_refs(i), names[i])])

existing_files ==
    <<"WrestlePickApp.swift", "ContentView.swift", "NewsView.swift",
      "AwardsView.swift", "PredictionsView.swift", "ProfileView.swift",
      "SharedUIComponents.swift">>

all_swift_files ==
    <<"NewsArticle.swift", "NewsModels.swift", "PredictionModels.swift",
      "User.swift", "Award.swift", "Event.swift", "Merch.swift",
      "MerchModels.swift", "SocialModels.swift", "SubscriptionModels.swift",
      "FantasyBookingModels.swift", "Prediction.swift">>

add_swift_files_to_xcode ==
    LET names == SelectSeq(Restrict(all_swift_files),
                           LAMBDA f : f \notin Range(existing_files))
        n == Len(names)
    IN  IF n = 0
        THEN Ran("add_files_to_xcode", names, <<>>, doc, <<>>)
        ELSE \E ids \in generate_uuid(2 * n) :
            Ran("add_files_to_xcode", names, ids,
                AddAfterAnchors(doc, names, ids,
                    <<RefLine(SHAREDUI_REF, SUI),
                      BldLine(PROFILEVIEW_BLD, PV, PROFILEVIEW_REF),
                      FileLine(PROFILEVIEW_BLD, PV),
                      ChildLine(SHAREDUI_REF, SUI)>>), <<"write">>)

models ==
    <<"NewsArticle.swift", "NewsModels.swift", "PredictionModels.swift",
      "User.swift", "Award.swift", "Event.swift", "Merch.swift",
      "MerchModels.swift", "SocialModels.swift", "SubscriptionModels.swift",
      "FantasyBookingModels.swift">>

add_models_to_xcode ==
    LET names == Restrict(models)
        n == Len(names)
    IN  \E ids \in generate_uuid(2 * n) :
        Ran("fix_xcode_project", names, ids,
            AddAfterAnchors(doc, names, ids,
                <<RefLine(SHAREDUI_REF, SUI),
                  BldLine(PROFILEVIEW_BLD, PV, PROFILEVIEW_REF),
                  FileLine(PROFILEVIEW_BLD, PV),
                  ChildLine(SHAREDUI_REF, SUI)>>), <<"write">>)

add_newsview_to_xcode ==
    \E ids \in generate_uuid(2) :
        \* ids[1] is file_ref_id, ids[2] is build_file_id
        Ran("add_newsview", <<NV>>, ids,
            AddAfterAnchors(doc, <<NV>>, ids,
                <<RefLine(CONTENTVIEW_REF, CV),
                  BldLine(CONTENTVIEW_BLD, CV, CONTENTVIEW_REF),
                  FileLine(CONTENTVIEW_BLD, CV),
                  ChildLine(CONTENTVIEW_REF, CV)>>), <<"write">>)

----------------------------------------------------------------------------
(* add_models_to_xcode.py *)

model_files ==
    <<"NewsArticle.swift", "NewsModels.swift", "PredictionModels.swift",
      "User.swift", "Award.swift", "Event.swift", "Merch.swift",
      "MerchModels.swift", "SocialModels.swift", "SubscriptionModels.swift",
      "FantasyBookingModels.swift">>

\* os.path.exists(os.path.join(models_dir, model_file))
InModelsDir(name) == \E i \in 1..Len(disk) : disk[i] = DiskFile(name, "Models")

add_model_files_to_xcode ==
    LET names == SelectSeq(Restrict(model_files), InModelsDir)
        n == Len(names)
        \* '... /* SharedUIComponents.swift */;' is how a PBXBuildFile line
        \* names its fileRef; a children entry ends in a comma.
        group_anchor(l) == l.kind = "bld" /\ l.ref = SHAREDUI_REF /\ l.name = SUI
        \* '... /* ProfileView.swift in Sources */;' stands nowhere.
        sources_anchor(l) == FALSE
    IN  \E ids \in generate_uuid(2 * n) :
        LET file_refs(i) == ids[2 * i - 1]
            build_files(i) == ids[2 * i]
            d1 == [doc EXCEPT
                     !.ref = @ \o [i \in 1..n |-> RefLine(file_refs(i), names[i])],
                     !.bld = @ \o [i \in 1..n |->
                                BldLine(build_files(i), names[i], file_refs(i))]]
            d2 == IF \E l \in AllLines(d1) : sources_anchor(l)
                  THEN [d1 EXCEPT !.tail = @ \o [i \in 1..n |->
                                      FileLine(build_files(i), names[i])]]
                  ELSE d1
            d3 == IF \E l \in AllLines(d2) : group_anchor(l)
                  THEN [d2 EXCEPT !.tail = @ \o [i \in 1..n |->
                                      ChildLine(file_refs(i), names[i])]]
                  ELSE d2
        IN  Ran("add_models_to_xcode", names, ids, d3, <<"write">>)

----------------------------------------------------------------------------
(* add_merchitem_to_xcode.py *)

\* Both record patterns end in ';\};' and a record ends in '; };': with the
\* blank between, neither the pattern nor its fallback matches.  The group
\* pattern starts 'WrestlePick = \{' and the Sources pattern asks for the
\* word PBXSourcesBuildPhase inside the buildPhases list: no match either.
MerchItemPatternFound == FALSE

add_merchitem_to_xcode ==
    \E ids \in generate_uuid(2) :
        LET file_ref_id == ids[1]
            build_file_id == ids[2]
            d1 == IF MerchItemPatternFound
                  THEN [doc EXCEPT
                          !.ref = @ \o <<QuotedRefLine(file_ref_id, MI)>>,
                          !.bld = @ \o <<BldLine(build_file_id, MI, file_ref_id)>>,
                          !.grp = @ \o <<ChildLine(file_ref_id, MI)>>,
                          !.src = @ \o <<FileLine(build_file_id, MI)>>]
                  ELSE doc
        IN  Ran("add_merchitem_to_xcode", <<MI>>, ids, d1, <<"write">>)

----------------------------------------------------------------------------
(* add_app_file.py *)

add_app_file ==
    LET new_sources_entry == <<FileLine(APP_BLD, APP)>>
        \* re.search finds the first 'files = (' of the text, the Frameworks
        \* phase; content.replace then rewrites every place that reads the
        \* same: an empty Sources list reads like an empty Frameworks list.
        same_text == doc.fw = <<>> /\ doc.src = <<>>
        d1 == [doc EXCEPT
                 !.ref = <<RefLine(APP_REF, APP), RefLine(APP_REF2, APP)>>,
                 !.bld = <<BldLine(APP_BLD, APP, APP_REF)>>,
                 !.fw = @ \o new_sources_entry,
                 !.src = IF same_text THEN @ \o new_sources_entry ELSE @]
        \* 'WrestlePick = \{' : the group is written  ID /* WrestlePick */ = {
    IN  Ran("add_app_file", <<APP>>, <<APP_REF, APP_REF2, APP_BLD>>, d1, <<"write">>)

----------------------------------------------------------------------------
(* fix_file_paths.py *)

swift_files ==
    <<"WrestlePickApp.swift", "ContentView.swift", "RealDataNewsView.swift",
      "RealDataPredictionsView.swift", "RealDataAwardsView.swift",
      "RealDataProfileView.swift", "FantasyBookingView.swift",
      "NewsArticle.swift", "Event.swift", "AnalyticsService.swift",
      "AuthenticationView.swift", "BookingEngine.swift",
      "BreakingNewsDetector.swift", "FirestoreCollections.swift",
      "LocalDatabaseService.swift", "MerchService.swift", "NewsService.swift">>

\* A substitution whose pattern also accepts a path that already has the
\* directory in front, and puts the directory in front once more.
FixPathAgain(l, swift_file) ==
    IF l.kind = "ref" /\ l.name = swift_file /\ l.path = PlainPath
    THEN [l EXCEPT !.path = PrefixedPath]
    ELSE IF l.kind = "ref" /\ l.name = swift_file /\ l.path = PrefixedPath
    THEN [l EXCEPT !.path = "WrestlePick/WrestlePick/name"]
    ELSE l

\* re.sub of one file name on one line: a PBXFileReference line of the name
\* whose path is the bare name gets the path WrestlePick/name.  The
\* identifier is [0-9A-F]+ , of any length.
FixPath(l, swift_file) ==
    IF l.kind = "ref" /\ l.name = swift_file /\ l.path = PlainPath
    THEN [l EXCEPT !.path = PrefixedPath]
    ELSE l

RECURSIVE FixPaths(_, _)
FixPaths(l, names) ==
    IF names = <<>> THEN l ELSE FixPaths(FixPath(l, Head(names)), Tail(names))

\* The substitutions edit lines where they stand, anywhere in the content.
FixedPaths(d, names) ==
    LET Edit(region) == [i \in 1..Len(region) |-> FixPaths(region[i], names)]
    IN  [d EXCEPT !.ref = Edit(@), !.bld = Edit(@), !.grp = Edit(@),
                  !.src = Edit(@), !.fw = Edit(@), !.tail = Edit(@)]

fix_file_paths ==
    LET names == SelectSeq(swift_files,
                     LAMBDA f : f \in Universe \cup {APP, RDAV})
    IN  Ran("fix_file_paths", names, <<>>, FixedPaths(doc, names),
            <<"write">>)

----------------------------------------------------------------------------
(* fix_project_paths.py *)

files_to_fix ==
    <<"RealDataPredictionsView.swift", "CreatePredictionView.swift",
      "RealDataAwardsView.swift", "RealDataProfileView.swift",
      "FantasyBookingView.swift", "CreateBookingView.swift",
      "PredictionService.swift", "AwardsService.swift", "UserService.swift",
      "BookingService.swift", "Award.swift", "PredictionModels.swift",
      "FantasyBookingModels.swift", "User.swift">>

\* A correction that puts the path under the WrestlePick directory.
CorrectRefPrefixed(l, file_name) ==
    IF /\ l.kind = "ref" /\ IsHex24(l.id) /\ l.name = file_name
       /\ l.path = QuotedPath
    THEN [l EXCEPT !.path = PrefixedPath]
    ELSE l

\* wrong_path_pattern finds the line of the name whose path is the name in
\* double quotes; correct_ref is that line with the path the name in
\* double quotes.
CorrectRef(l, file_name) ==
    IF /\ l.kind = "ref" /\ IsHex24(l.id) /\ l.name = file_name
       /\ l.path = QuotedPath
    THEN [l EXCEPT !.path = QuotedPath]
    ELSE l

RECURSIVE CorrectRefs(_, _)
CorrectRefs(l, names) ==
    IF names = <<>> THEN l
    ELSE CorrectRefs(CorrectRef(l, Head(names)), Tail(names))

CorrectedRefs(d, names) ==
    LET Edit(region) == [i \in 1..Len(region) |-> CorrectRefs(region[i], names)]
    IN  [d EXCEPT !.ref = Edit(@), !.bld = Edit(@), !.grp = Edit(@),
                  !.src = Edit(@), !.fw = Edit(@), !.tail = Edit(@)]

fix_project_paths ==
    LET names == SelectSeq(files_to_fix, LAMBDA f : f \in Universe \cup {RDAV})
    IN  Ran("fix_project_paths", names, <<>>,
            CorrectedRefs(doc, names), <<"write">>)

----------------------------------------------------------------------------
(* fix_xcode_integration.py *)

files_to_add ==
    <<"RealDataModels.swift", "RealNewsView.swift", "RealRSSManager.swift",
      "SimpleNewsView.swift", "SimpleRSSManager.swift">>

\* f"{uuid} /* {file_name} */;" and f"{uuid} /* {file_name} in Sources */;"
ChildStatement(id, name) == [ChildLine(id, name) EXCEPT !.kind = "child;"]

FileStatement(id, name) == [FileLine(id, name) EXCEPT !.kind = "file;"]

\* re.sub(r'(.*ANCHOR...)', r'\1' + new, ...): with the greedy start the
\* match ends at the last of the anchors, and the new text follows it.
InsertAfterLast(region, anchors, new) ==
    LET at == {i \in 1..Len(region) : region[i] \in anchors}
        last == CHOOSE i \in at : \A j \in at : j <= i
    IN  IF at = {} THEN region
        ELSE SubSeq(region, 1, last) \o new \o SubSeq(region, last + 1, Len(region))

\* The lines in which  1A2B3C4D5E6F7890ABCDEF00 /* WrestlePickApp.swift */
\* occurs: the entry of the children list, the PBXFileReference and the
\* fileRef of a PBXBuildFile.
AnchorChildren(d) ==
    {l \in Range(d.grp) : l.kind = "child" /\ l.id = APP_ANCHOR_ID /\ l.name = APP}

AnchorFileRefs(d) ==
    {l \in Range(d.ref) : l.kind = "ref" /\ l.id = APP_ANCHOR_ID /\ l.name = APP}

AnchorFileRefUses(d) ==
    {l \in Range(d.bld) : l.kind = "bld" /\ l.ref = APP_ANCHOR_ID /\ l.name = APP}

\* The lines in which  1A2B3C4D5E6F7890ABCDEF00 /* WrestlePickApp.swift in
\* Sources */  occurs: the entry of the files list and the PBXBuildFile.
AnchorFiles(d) ==
    {l \in Range(d.src) : l.kind = "file" /\ l.id = APP_ANCHOR_ID /\ l.name = APP}

AnchorBuildFiles(d) ==
    {l \in Range(d.bld) : l.kind = "bld" /\ l.id = APP_ANCHOR_ID /\ l.name = APP}

\* main_group_pattern: group 1 runs to the last occurrence of the anchor
\* that a children list follows and on to the next semicolon.  After the
\* entry of the children list that is the ");" that closes the list (the
\* Products group follows the main group), so the new text stands in the
\* group's record behind its list; after a PBXFileReference or a fileRef
\* it stands inside that record, behind "isa = PBXFileReference;" or
\* behind the fileRef.
AddToMainGroup(d, file_refs) ==
    IF AnchorChildren(d) # {}
    THEN [d EXCEPT !.grpRec.extra = @ \o file_refs]
    ELSE IF AnchorFileRefs(d) # {}
    THEN [d EXCEPT !.ref = InsertAfterLast(@, AnchorFileRefs(d), file_refs)]
    ELSE [d EXCEPT !.bld = InsertAfterLast(@, AnchorFileRefUses(d), file_refs)]

\* last_file_ref_pattern: the definitions follow the closing brace of the
\* anchor's PBXFileReference, behind anything that stands inside it.
AddFileRefDefinitions(d, inside, file_ref_definitions) ==
    LET after == IF AnchorChildren(d) = {} THEN inside ELSE <<>>
        ends == IF after = <<>> THEN AnchorFileRefs(d) ELSE {Last(after)}
    IN  IF AnchorFileRefs(d) = {} THEN d
        ELSE [d EXCEPT !.ref = InsertAfterLast(@, ends, file_ref_definitions)]

\* sources_phase_pattern: as main_group_pattern, with the entry of the
\* files list and the PBXBuildFile of the anchor.
AddToSourcesPhase(d, build_file_refs) ==
    IF AnchorFiles(d) # {}
    THEN [d EXCEPT !.srcRec.extra = @ \o build_file_refs]
    ELSE [d EXCEPT !.bld = InsertAfterLast(@, AnchorBuildFiles(d), build_file_refs)]

\* last_build_file_pattern: the definitions follow the PBXBuildFile whose
\* identifier and fileRef both are the anchor.
AddBuildFileDefinitions(d, build_file_definitions) ==
    [d EXCEPT !.bld = InsertAfterLast(@,
        AnchorBuildFiles(d) \cap AnchorFileRefUses(d), build_file_definitions)]

fix_xcode_integration ==
    LET names == SelectSeq(files_to_add, LAMBDA f : f \in Universe \cup {RNV})
        n == Len(names)
    IN  \E ids \in generate_uuid(2 * n) :
        LET file_uuids(i) == ids[2 * i - 1]
            build_file_uuids(i) == ids[2 * i]
            file_refs == [i \in 1..n |-> ChildStatement(file_uuids(i), names[i])]
            d1 == AddToMainGroup(doc, file_refs)
            d2 == AddFileRefDefinitions(d1, file_refs,
                      [i \in 1..n |-> RefLine(file_uuids(i), names[i])])
            d3 == AddToSourcesPhase(d2,
                      [i \in 1..n |-> FileStatement(build_file_uuids(i), names[i])])
            d4 == AddBuildFileDefinitions(d3,
                      [i \in 1..n |->
                          BldLine(build_file_uuids(i), names[i], file_uuids(i))])
        IN  Ran("fix_xcode_integration", names, ids, d4,
                <<"write", Verify(names, d4)>>)

----------------------------------------------------------------------------
(* fix_build_phase.py *)

\* build_phase_pattern has one group.
build_phase_groups == 1

\* build_phase_replacement refers to \1 and to \2.
build_phase_replacement == 2

\* re.sub reads the replacement before it searches: a reference to a group
\* the pattern has not raises re.error, which the script catches to print
\* the error and exit(1).  The pattern itself asks for a Sources phase
\* 1A2B3C4D5E6F7890ABCDEFF9 of exactly two entries, which no document of
\* the model holds.
fix_build_phase ==
    LET names == SelectSeq(files_to_add, LAMBDA f : f \in Universe \cup {RNV})
    IN  IF build_phase_replacement > build_phase_groups
        THEN Ran("fix_build_phase", names, <<>>, doc, <<"raise">>)
        ELSE Ran("fix_build_phase", names, <<>>, doc, <<"write">>)

----------------------------------------------------------------------------
(* fix_firebase_dependency.py *)

\* r'(packageProductDependencies = \([^)]*?)(\);' opens two groups and
\* closes one: re.sub raises re.error when it compiles it.
UnterminatedSubpattern == TRUE

fix_firebase_dependency ==
    IF doc.packages = "firebase"
    THEN \* "Firebase package already referenced": return
         Ran("fix_firebase_dependency", <<>>, <<>>, doc, <<>>)
    ELSE IF doc.packages = "declared" /\ UnterminatedSubpattern
    THEN Ran("fix_firebase_dependency", <<>>, <<>>, doc, <<"raise">>)
    ELSE \* the package text is put after  rootObject = ...;
         Ran("fix_firebase_dependency", <<>>, <<>>,
             [doc EXCEPT !.packages = "firebase"], <<"write">>)

----------------------------------------------------------------------------

Next ==
    \/ add_all_swift_files_to_xcode_project
    \/ clean_xcode_project
    \/ clean_all_xcode_project
    \/ fix_build_sources
    \/ add_files_to_xcode_project
    \/ fix_complete_integration
    \/ add_swift_files_to_xcode
    \/ add_models_to_xcode
    \/ add_newsview_to_xcode
    \/ add_model_files_to_xcode
    \/ add_merchitem_to_xcode
    \/ add_app_file
    \/ fix_file_paths
    \/ fix_project_paths
    \/ fix_xcode_integration
    \/ fix_build_phase
    \/ fix_firebase_dependency

Spec == Init /\ [][Next]_vars

Session == InitSession /\ [][Next]_vars

----------------------------------------------------------------------------
(* The document read as a graph of records.  The records are the lines of  *)
(* the two sections; the group and the Sources phase are records too.      *)

LastRun == Last(hist)

AddScripts ==
    {"add_all_swift_files", "add_new_views", "add_files_to_xcode",
     "fix_xcode_project", "add_newsview", "add_models_to_xcode",
     "add_merchitem_to_xcode", "add_app_file", "fix_build_sources"}

RemoveScripts == {"clean_project", "clean_all_project"}

\* No two uuid4() values of the behaviour coincided.
NoClash == clashes = 0

\* The last run wrote what it set out to write and ended with status 0.
Completed == outcome = "ok"

Records(d) == d.ref \o d.bld

DefinedIds(d) == {l.id : l \in Range(Records(d))} \cup {d.grpId, d.srcId}

HasFileReference(d, name) == \E r \in Range(d.ref) : r.name = name

\* How many elements of the sequence  s  are in the set  hits .
Count(s, hits) == Cardinality({i \in 1..Len(s) : s[i] \in hits})

NoDangling(d) ==
    /\ \A c \in Range(d.grp) : c.id \in DefinedIds(d)
    /\ \A f \in Range(d.src) : f.id \in DefinedIds(d)
    /\ \A b \in Range(d.bld) : b.ref \in DefinedIds(d)

----------------------------------------------------------------------------
(* Claims *)

\* C1: after a run on a document without dangling references, every
\* identifier in the group's children, in the Sources files and in a
\* PBXBuildFile's fileRef is the identifier of a record of the document.
C1_NoDanglingReferences ==
    (hist # <<>> /\ NoClash /\ Completed /\ NoDangling(prev)) => NoDangling(doc)

\* C2: after a remove of a name that had a PBXFileReference, no
\* PBXBuildFile, no children entry and no Sources entry refers to the
\* removed reference, and the reference and its build files are gone.
C2_CascadeComplete ==
    (hist # <<>> /\ NoClash /\ Completed /\ LastRun \in RemoveScripts) =>
        \A r \in Range(prev.ref) :
            r.name \in Range(req) =>
                LET wrappers == {b.id : b \in {x \in Range(prev.bld) : x.ref = r.id}}
                IN  /\ \A b \in Range(doc.bld) : b.ref # r.id /\ b.id \notin wrappers
                    /\ \A c \in Range(doc.grp) : c.id # r.id
                    /\ \A f \in Range(doc.src) : f.id \notin wrappers
                    /\ \A x \in Range(doc.ref) : x.id # r.id

\* C3: after an add of names that were not present, the group's children
\* end with the identifier of the new PBXFileReference of the last name,
\* the Sources files end with the identifier of its new PBXBuildFile, and
\* that build file's fileRef is the new reference.
C3_AppendedAtEnd ==
    (/\ hist # <<>> /\ NoClash /\ Completed /\ LastRun \in AddScripts
     /\ req # <<>>
     /\ \A i \in 1..Len(req) : ~HasFileReference(prev, req[i])) =>
        \E r \in Range(doc.ref), b \in Range(doc.bld) :
            /\ r \notin Range(prev.ref) /\ b \notin Range(prev.bld)
            /\ r.name = Last(req) /\ b.ref = r.id
            /\ doc.grp # <<>> /\ Last(doc.grp).id = r.id
            /\ doc.src # <<>> /\ Last(doc.src).id = b.id

\* C4: the same add run twice in a row leaves the document the first run
\* left.
C4_AddIdempotent ==
    (/\ Len(hist) = 2 /\ NoClash /\ Completed /\ hist[1] = hist[2]
     /\ hist[2] \in AddScripts) => doc = prev

\* C5: a remove of names none of which has a PBXFileReference leaves the
\* document as it was.
C5_NoOpRemoval ==
    (/\ hist # <<>> /\ NoClash /\ Completed /\ LastRun = "clean_project"
     /\ \A i \in 1..Len(req) : ~HasFileReference(prev, req[i])) => doc = prev

\* The number of lines named  name  grew in all of the four places.
AllFourEdits(name) ==
    LET Named == {l \in AllLines(doc) \cup AllLines(prev) : l.name = name}
    IN  /\ Count(doc.ref, Named) > Count(prev.ref, Named)
        /\ Count(doc.bld, Named) > Count(prev.bld, Named)
        /\ Count(doc.grp, Named) > Count(prev.grp, Named)
        /\ Count(doc.src, Named) > Count(prev.src, Named)

\* C6: an add either makes all four edits of every requested file or
\* leaves the document unchanged.
C6_AllOrNothing ==
    (hist # <<>> /\ NoClash /\ Completed /\ LastRun \in AddScripts) =>
        \/ doc = prev
        \/ \A i \in 1..Len(req) : AllFourEdits(req[i])

\* C7: every PBXBuildFile refers to exactly one PBXFileReference of the
\* document, and Sources lists at most one build file per reference.
C7_OneWrapperPerReference ==
    (hist # <<>> /\ NoClash /\ Completed) =>
        /\ \A b \in Range(doc.bld) :
               Count(doc.ref, {r \in Range(doc.ref) : r.id = b.ref}) = 1
        /\ \A r \in Range(doc.ref) :
               Count(doc.src, {f \in Range(doc.src) :
                   \E b \in Range(doc.bld) : b.id = f.id /\ b.ref = r.id}) <= 1

UniqueNames(d) ==
    \A i, j \in 1..Len(d.ref) : i # j => d.ref[i].name # d.ref[j].name

\* C8: no run gives the document a second PBXFileReference of a name.
C8_UniqueDisplayNames ==
    (hist # <<>> /\ NoClash /\ Completed /\ UniqueNames(prev)) => UniqueNames(doc)

UniqueIds(d) ==
    /\ \A i, j \in 1..Len(Records(d)) :
           i # j => Records(d)[i].id # Records(d)[j].id
    /\ \A l \in Range(Records(d)) : l.id \notin {d.grpId, d.srcId}

\* C9: no identifier is the key of two records.
C9_UniqueIdentifiers ==
    (hist # <<>> /\ NoClash /\ Completed) => UniqueIds(doc)

\* C10: no generated identifier is in the document the run read, and none
\* was generated earlier in the same run.
C10_AllocatorFresh ==
    NoClash =>
        \A k \in 1..Len(alloc) :
            /\ alloc[k] \notin IdsIn(prev)
            /\ \A j \in 1..(k - 1) : alloc[j] # alloc[k]

\* C11: every identifier a run generates for a record or a list entry has
\* 24 characters (all of them are written in upper-case hex digits).
C11_IdentifierLength ==
    \A k \in 1..Len(alloc) : IdLength(alloc[k]) = 24

\* C12: an identifier that a run deleted from the document is never
\* generated again by a later run.
C12_NeverReused ==
    NoClash /\ Completed =>
        \A k \in 1..Len(alloc) : alloc[k] \notin removed

PathFixScripts == {"fix_file_paths", "fix_project_paths"}

\* The positions of a region at which the last run changed the line.
Changed(before, after) == {i \in 1..Len(before) : before[i] # after[i]}

\* The lines of a region stand where they stood, and a line that changed is
\* a PBXFileReference of a requested name that differs in its path only.
PathsOnly(before, after) ==
    /\ Len(after) = Len(before)
    /\ \A i \in Changed(before, after) :
           /\ before[i].kind = "ref"
           /\ before[i].name \in Range(req)
           /\ after[i] = [before[i] EXCEPT !.path = after[i].path]

\* A look-up of a file by name: the identifiers of its PBXFileReferences.
Lookup(d, name) ==
    {l.id : l \in {x \in Range(d.ref) \cup Range(d.tail) :
                       x.kind = "ref" /\ x.name = name}}

\* C13: a path fix changes nothing but the path of the one PBXFileReference
\* of a file it names: identifiers, all other records, the children list
\* and the files list are as they were, and every name is looked up to the
\* identifier it had.
C13_RenameFrame ==
    (hist # <<>> /\ LastRun \in PathFixScripts /\ Completed) =>
        /\ [doc EXCEPT !.ref = prev.ref, !.tail = prev.tail] = prev
        /\ PathsOnly(prev.ref, doc.ref)
        /\ PathsOnly(prev.tail, doc.tail)
        /\ \A name \in Range(req) :
               Cardinality({i \in Changed(prev.ref, doc.ref) :
                                prev.ref[i].name = name})
                 + Cardinality({i \in Changed(prev.tail, doc.tail) :
                                    prev.tail[i].name = name}) <= 1
        /\ \A name \in Universe \cup {APP} :
               Lookup(doc, name) = Lookup(prev, name)

\* C14: a path fix that names a file without a PBXFileReference in the
\* document ends with an error and leaves the document as it was.
C14_NotFoundFails ==
    (/\ hist # <<>> /\ LastRun \in PathFixScripts
     /\ outcome # "write_failed"
     /\ \E name \in Range(req) : Lookup(prev, name) = {}) =>
        (outcome = "error" /\ doc = prev)

VerifySteps == {"verify_ok", "verify_failed"}

\* C15: a run that checks the document checks it before it writes the
\* file, and a run whose check fails writes nothing.
C15_VerifyBeforeWrite ==
    /\ \A i, j \in 1..Len(steps) :
           (steps[i] = "write" /\ steps[j] \in VerifySteps) => j < i
    /\ "verify_failed" \in Range(steps) =>
           ("write" \notin Range(steps) /\ doc = prev)

\* C16: when the write of the file fails, the file holds the complete
\* document that the run read.
C16_AtomicReplace ==
    outcome = "write_failed" => doc = prev

Failed == outcome \in {"error", "write_failed"}

\* C17: a run that ends with an exception or a non-zero exit status leaves
\* the file as it was when the run started.
C17_FailureLeavesFile ==
    (hist # <<>> /\ Failed) => doc = prev

\* C18: a run leaves the record of the main group and the record of the
\* Sources phase in place, with the identifier and with every field they
\* had; it changes at most the children list and the files list.
C18_RecordsKept ==
    (hist # <<>> /\ Completed) =>
        /\ doc.grpId = prev.grpId /\ doc.grpRec = prev.grpRec
        /\ doc.srcId = prev.srcId /\ doc.srcRec = prev.srcRec

\* The region  after  is the region  before  followed by lines of one kind.
Extended(before, after, kind) ==
    /\ Len(after) >= Len(before)
    /\ SubSeq(after, 1, Len(before)) = before
    /\ \A i \in (Len(before) + 1)..Len(after) : after[i].kind = kind

\* C19: what an add creates stands in its own section or list, behind the
\* entries that were there: PBXFileReferences in their section,
\* PBXBuildFiles in theirs, children in the children list, files in the
\* files list, and nothing anywhere else.
C19_PlacedInOwnSection ==
    (/\ hist # <<>> /\ NoClash /\ Completed
     /\ LastRun \in AddScripts \cup {"fix_xcode_integration"}) =>
        /\ Extended(prev.ref, doc.ref, "ref")
        /\ Extended(prev.bld, doc.bld, "bld")
        /\ Extended(prev.grp, doc.grp, "child")
        /\ Extended(prev.src, doc.src, "file")
        /\ [doc EXCEPT !.ref = prev.ref, !.bld = prev.bld,
                       !.grp = prev.grp, !.src = prev.src] = prev

\* The entries of the list  before  that are still in the list  after
\* stand there in the order they had.
OrderKept(before, after) ==
    SelectSeq(before, LAMBDA l : l \in Range(after))
        = SelectSeq(after, LAMBDA l : l \in Range(before))

\* An entry that is gone from the list is an entry of a file that the last
\* run set out to remove.
OnlyRemovedGone(before, after) ==
    \A l \in Range(before) :
        l \notin Range(after) =>
            (LastRun \in RemoveScripts /\ l.name \in Range(req))

\* C20: every run that writes the document keeps the entries of the
\* children list and of the files list that it does not remove in the
\* order they had, and the only entries it takes away are entries of the
\* files it removes.
C20_OrderPreserved ==
    (hist # <<>> /\ Completed) =>
        /\ OrderKept(prev.grp, doc.grp) /\ OrderKept(prev.src, doc.src)
        /\ OnlyRemovedGone(prev.grp, doc.grp)
        /\ OnlyRemovedGone(prev.src, doc.src)

\* A removal took an entry out of the files list and left two or more.
C20_RemovedBetweenOthers ==
    /\ Len(hist) = 2 /\ Completed
    /\ hist[1] \in AddScripts /\ LastRun \in RemoveScripts
    /\ Len(doc.src) < Len(prev.src)
    /\ Len(doc.src) >= 2

\* A file is reachable when the children list holds the identifier of a
\* PBXFileReference of its name.
Reachable(d, name) ==
    \E c \in Range(d.grp), r \in Range(d.ref) :
        c.kind = "child" /\ c.id = r.id /\ r.name = name

DiskNames == {disk[i].name : i \in 1..Len(disk)}

\* C21: add_all_swift_files looks a file up among the reachable
\* PBXFileReferences only: a file on disk that is not reachable is among
\* the files the run sets out to add.
C21_OrphanNotFound ==
    (hist # <<>> /\ NoClash /\ LastRun = "add_all_swift_files") =>
        \A f \in DiskNames : ~Reachable(prev, f) => f \in Range(req)

\* The lines of one kind that carry one file name, in the order they have
\* in the document.
LinesOf(d, kind, name) ==
    SelectSeq(d.bld \o d.ref \o d.fw \o d.grp \o d.src \o d.tail,
              LAMBDA l : l.kind = kind /\ l.name = name)

SwiftFileRefs(d) == {l \in AllLines(d) : l.kind = "ref"}

\* C22: after clean_all_project the PBXFileReferences of .swift files are
\* the ones of ContentView.swift that the run read and no other, and
\* ContentView.swift's PBXBuildFile and files entry are as they were.
C22_OnlyContentViewLeft ==
    (hist # <<>> /\ LastRun = "clean_all_project" /\ Completed) =>
        /\ SwiftFileRefs(doc) = {l \in SwiftFileRefs(prev) : l.name = CV}
        /\ LinesOf(doc, "ref", CV) = LinesOf(prev, "ref", CV)
        /\ LinesOf(doc, "bld", CV) = LinesOf(prev, "bld", CV)
        /\ LinesOf(doc, "file", CV) = LinesOf(prev, "file", CV)

\* The last run was an add or a remove that had no file to add or remove.
EmptyBatch ==
    /\ hist # <<>> /\ Completed
    /\ LastRun \in AddScripts \cup RemoveScripts
    /\ req = <<>>

\* C23: a run that reads the document and has nothing to add or remove
\* leaves the records, the identifiers they refer to and the order of the
\* lists as they were.
C23_RoundTrip ==
    EmptyBatch => doc = prev

\* A run with nothing to do wrote a document that has records back.
C23_WroteBackUnchanged ==
    /\ EmptyBatch
    /\ steps = <<"write">>
    /\ doc.ref # <<>> /\ doc.grp # <<>>

\* C24: add_all_swift_files leaves out a file on disk exactly when the
\* document has a PBXFileReference of its name, and after the run every
\* file on disk has one.
C24_SkipsExactlyPresent ==
    (hist # <<>> /\ NoClash /\ Completed /\ LastRun = "add_all_swift_files") =>
        \A f \in DiskNames :
            /\ f \in Range(req) <=> Lookup(prev, f) = {}
            /\ Lookup(doc, f) # {}


\* The list entries a run has written: the entries and statements that
\* stand in the main group, in the Sources phase or in their records and
\* did not stand there before.
ListEntries(d) ==
    {l \in Range(d.grp) \cup Range(d.src) \cup Range(d.grpRec.extra)
            \cup Range(d.srcRec.extra) :
        l.kind \in {"child", "file", "child;", "file;"}}

WrittenEntries == ListEntries(doc) \ ListEntries(prev)

IntegrationScripts ==
    AddScripts \cup {"fix_xcode_integration", "fix_complete_integration"}

\* C25: every element an add writes for the children list of a group or
\* the files list of the Sources phase is an identifier with the display
\* name of a file of the batch as its label and ends with a comma; none
\* ends with another character.
C25_CommaTerminated ==
    (hist # <<>> /\ Completed /\ LastRun \in IntegrationScripts) =>
        \A l \in WrittenEntries :
            l.kind \in {"child", "file"} /\ l.name \in Range(req)


\* The PBXFileReference lines that wrong_path_pattern matches for a name
\* of the list.
WrongPathMatches(d, names) ==
    {l \in AllLines(d) :
        /\ l.kind = "ref" /\ IsHex24(l.id) /\ l.path = QuotedPath
        /\ l.name \in Range(names)}

RanTwice(script) ==
    /\ Len(hist) >= 2
    /\ hist[Len(hist)] = script
    /\ hist[Len(hist) - 1] = script

\* C27: fix_file_paths is idempotent: a completed run that follows a run
\* of fix_file_paths changes nothing, and the substitutions applied once
\* more to the outcome of a completed run give that outcome.
C27_Idempotent ==
    /\ (RanTwice("fix_file_paths") /\ Completed) => doc = prev
    /\ (hist # <<>> /\ LastRun = "fix_file_paths" /\ Completed) =>
            FixedPaths(doc, req) = doc

\* The second of two runs, on a document in which the first has put a
\* path under the WrestlePick directory.
C27_SecondRunOnFixedPaths ==
    /\ RanTwice("fix_file_paths") /\ Completed
    /\ \E l \in Range(doc.ref) :
            l.path = PrefixedPath /\ l.name \in Range(req)


\* The document without the lines whose identifier uuid4 has produced.
\* After an add on a document that held no such identifier, it is the
\* document the add has read.
WithoutAdded(d) ==
    LET Old(region) == SelectSeq(region, LAMBDA l : ~IsUuid(l.id))
    IN  [d EXCEPT !.ref = Old(@), !.bld = Old(@), !.grp = Old(@),
                  !.src = Old(@), !.fw = Old(@), !.tail = Old(@)]

\* An add of all Swift files on the first document, then a remove.
AddThenRemove ==
    /\ Len(hist) = 2
    /\ hist[1] = "add_all_swift_files"
    /\ hist[2] \in RemoveScripts
    /\ Completed /\ NoClash

\* The names the remove has taken out were all absent before the add.
AbsentBefore ==
    \A l \in AllLines(WithoutAdded(prev)) : l.name \notin Range(req)

\* The names of the files the add has written lines for.
AddedNames == {l.name : l \in {x \in AllLines(prev) : IsUuid(x.id)}}

SameRecordsAndLists(d, e) ==
    /\ d.ref = e.ref /\ d.bld = e.bld /\ d.tail = e.tail /\ d.fw = e.fw
    /\ d.grp = e.grp /\ d.src = e.src

\* C28: a remove undoes an add: when the files a remove takes out were
\* absent from a document, and were added to it, the document after the
\* remove has the records, the children lists and the files lists of the
\* document before the add.
C28_RemoveUndoesAdd ==
    (AddThenRemove /\ AddedNames # {} /\ AddedNames = Range(req)
            /\ AbsentBefore) =>
        SameRecordsAndLists(doc, WithoutAdded(prev))


\* The lines of a file: its PBXFileReference, its PBXBuildFile, its
\* entries in the children list and in the files list, in document order.
RecordsAndEntries(d, name) ==
    [kind \in {"ref", "bld", "child", "file"} |-> LinesOf(d, kind, name)]

\* The names a remove has not named: those outside its list and, for
\* clean_all_project, ContentView.swift.
NotNamed ==
    {l.name : l \in AllLines(prev)} \ 
        (Range(req) \ (IF LastRun = "clean_all_project" THEN {CV} ELSE {}))

\* C29: a remove touches only the files it names: the PBXFileReference,
\* the PBXBuildFile and the list entries of every file it has not named
\* are after the remove what they were before it, also when the name of
\* that file has the name of a removed file in it.
C29_OnlyNamedTouched ==
    (hist # <<>> /\ Completed /\ LastRun \in RemoveScripts) =>
        \A name \in NotNamed :
            RecordsAndEntries(doc, name) = RecordsAndEntries(prev, name)

\* clean_project has taken AwardsView.swift out of a document that holds
\* RealDataAwardsView.swift too.
C29_LongerNameKept ==
    /\ hist # <<>> /\ Completed /\ LastRun = "clean_project"
    /\ AV \in Range(req) /\ RDAV \in NotNamed
    /\ LinesOf(prev, "ref", AV) # <<>> /\ LinesOf(doc, "ref", AV) = <<>>
    /\ LinesOf(doc, "ref", RDAV) # <<>> /\ Contains(RDAV, AV)

====
